---- MODULE Spec2Model ----
(***************************************************************************)
(* Model of haystack.preview.components.retrievers.memory.MemoryRetriever  *)
(* (construction, store binding, run, to_dict / from_dict) and of the      *)
(* warm-up behaviour of WhisperTranscriber.                                *)
(*                                                                         *)
(* Python values are encoded as follows:                                   *)
(*   Optional[T]      None is <<>>, a value v is <<v>>                     *)
(*   an exception     [exc, text, value]  (value: the number the message   *)
(*                    interpolates, as an Optional)                        *)
(*   a call outcome   [kind |-> "return", value |-> v]  or                 *)
(*                    [kind |-> "raise", error |-> e]                      *)
(*   the store field of a serialized component is tagged:                  *)
(*                    [tag |-> "null"], [tag |-> "str", val |-> name],     *)
(*                    [tag |-> "dict", val |-> record]                     *)
(***************************************************************************)
EXTENDS Integers, Sequences, FiniteSets, TLC

VARIABLES retriever, lastOp, transcriber, load_model_calls, warm_ups, lastW

vars == <<retriever, lastOp, transcriber, load_model_calls, warm_ups, lastW>>
rvars == <<retriever, lastOp>>
wvars == <<transcriber, load_model_calls, warm_ups, lastW>>

(* ------------------------------ bounds -------------------------------- *)
MaxTopK == 2
MaxQueries == 2
MaxWarmUps == 3

(* ------------------------------ values -------------------------------- *)
None == <<>>
Some(v) == <<v>>

TopKs == {-2} \cup 0..MaxTopK
Queries == {"PHP", "Java", ""}
FilterVals == {{}, {"PHP"}}
OptFilters == {None} \cup {Some(f) : f \in FilterVals}
InitFilters == {None, Some({"PHP"})}
RunFilters == {None, Some({})}
OptTopKs == {None} \cup {Some(k) : k \in TopKs}
OptBools == {None, Some(TRUE), Some(FALSE)}
QueryLists == UNION {[1..n -> Queries] : n \in 0..MaxQueries}
StoreNames == {"memory"}

Return(v) == [kind |-> "return", value |-> v]
Raise(e) == [kind |-> "raise", error |-> e]
Error(exc, text, value) == [exc |-> exc, text |-> text, value |-> value]

(* ------------------------ document store (external) ------------------- *)
StoreA == [type |-> "MemoryDocumentStore", docs |-> <<"Java", "Ruby", "PHP">>]
MockStore == [type |-> "MockStore", docs |-> <<>>]
MemoryStores == {StoreA}
AnyStores == MemoryStores \cup {MockStore}

Prefix(s, n) == IF n <= 0 THEN <<>> ELSE SubSeq(s, 1, IF n < Len(s) THEN n ELSE Len(s))

(* MemoryDocumentStore.bm25_retrieval: rejects an empty query, otherwise  *)
(* ranks the filtered documents (matching ones first) and keeps top_k.     *)
bm25_retrieval(st, query, filters, top_k, scale_score) ==
    IF query = ""
    THEN Raise(Error("ValueError", "Query should be a non-empty string", None))
    ELSE LET keep(d) == filters = None \/ filters[1] = {} \/ d \in filters[1]
             pool == SelectSeq(st.docs, keep)
             hit(d) == d = query
             miss(d) == d # query
             ranked == SelectSeq(pool, hit) \o SelectSeq(pool, miss)
             scored == [i \in 1..Len(ranked) |->
                          [content |-> ranked[i],
                           score |-> IF ranked[i] = query
                                     THEN (IF scale_score THEN 1 ELSE 2) ELSE 0]]
         IN Return(Prefix(scored, top_k))

Store_to_dict(st) == [type |-> st.type, documents |-> st.docs]
Store_from_dict(d) == [type |-> d.type, docs |-> d.documents]
registry == {"MemoryDocumentStore"}

(* ------------------------------ StoreAwareMixin ----------------------- *)
supported_stores == {"MemoryDocumentStore"}

store_getter(self) == self._store

store_setter(self, st) ==
    IF st.type \notin supported_stores
    THEN Raise(Error("ValueError", "is not compatible with this component", None))
    ELSE Return([self EXCEPT !._store = Some(st)])

(* ------------------------------ MemoryRetriever ----------------------- *)
ClassName == "MemoryRetriever"

init_off_by_one(id, filters, top_k, scale_score) ==
    IF top_k < 0
    THEN Raise(Error("ValueError", "top_k must be > 0, but got", Some(top_k)))
    ELSE Return([id |-> id, filters |-> filters, top_k |-> top_k,
                 scale_score |-> scale_score, _store |-> None, _store_name |-> ""])

init(id, filters, top_k, scale_score) ==
    IF top_k <= 0
    THEN Raise(Error("ValueError", "top_k must be > 0, but got", Some(top_k)))
    ELSE Return([id |-> id, filters |-> filters, top_k |-> top_k,
                 scale_score |-> scale_score, _store |-> None, _store_name |-> ""])

to_dict_store_first(self) ==
    LET store1 == IF self._store_name # ""
                  THEN [tag |-> "str", val |-> self._store_name]
                  ELSE [tag |-> "null"]
        store2 == IF self._store # None
                  THEN [tag |-> "dict", val |-> Store_to_dict(self._store[1])]
                  ELSE store1
    IN [hash |-> self.id,
        type |-> ClassName,
        store |-> store2,
        init_parameters |-> [filters |-> self.filters, top_k |-> self.top_k,
                             scale_score |-> self.scale_score]]

to_dict(self) ==
    LET store1 == IF self._store # None
                  THEN [tag |-> "dict", val |-> Store_to_dict(self._store[1])]
                  ELSE [tag |-> "null"]
        store2 == IF self._store_name # ""
                  THEN [tag |-> "str", val |-> self._store_name]
                  ELSE store1
    IN [hash |-> self.id,
        type |-> ClassName,
        store |-> store2,
        init_parameters |-> [filters |-> self.filters, top_k |-> self.top_k,
                             scale_score |-> self.scale_score]]

InitKeys == {"filters", "top_k", "scale_score"}

(* keyword binding of init_params: a key the constructor does not know is a TypeError, *)
(* a key left out takes the constructor's default.                         *)
construct_kw(id, init_params) ==
    IF ~(DOMAIN init_params \subseteq InitKeys)
    THEN Raise(Error("TypeError", "unexpected keyword argument", None))
    ELSE init(id,
              IF "filters" \in DOMAIN init_params THEN init_params.filters ELSE None,
              IF "top_k" \in DOMAIN init_params THEN init_params.top_k ELSE 10,
              IF "scale_score" \in DOMAIN init_params THEN init_params.scale_score ELSE TRUE)

from_dict_store_unbound(comp, data, events) ==
    IF "store" \notin DOMAIN data
    THEN [kind |-> "raise", error |-> Error("KeyError", "store", None), events |-> events]
    ELSE IF data.store.tag = "dict"
    THEN LET store_type == data.store.val.type IN
         IF store_type \notin registry
         THEN [kind |-> "raise", error |-> Error("KeyError", store_type, None),
               events |-> events]
         ELSE [kind |-> "return", value |-> comp,
               events |-> Append(events, "Store.from_dict")]
    ELSE [kind |-> "return", value |-> comp, events |-> events]

(* the store part of from_dict, lines 57-64; events lists the objects      *)
(* built so far                                                            *)
from_dict_store(comp, data, events) ==
    IF "store" \notin DOMAIN data
    THEN [kind |-> "raise", error |-> Error("KeyError", "store", None), events |-> events]
    ELSE IF data.store.tag = "dict"
    THEN LET store_type == data.store.val.type IN
         IF store_type \notin registry
         THEN [kind |-> "raise", error |-> Error("KeyError", store_type, None),
               events |-> events]
         ELSE LET r == store_setter(comp, Store_from_dict(data.store.val))
                  ev == Append(events, "Store.from_dict") IN
              IF r.kind = "raise"
              THEN [kind |-> "raise", error |-> r.error, events |-> ev]
              ELSE [kind |-> "return", value |-> r.value, events |-> ev]
    ELSE [kind |-> "return", value |-> comp, events |-> events]

from_dict_late_check(id, data) ==
    IF "init_parameters" \notin DOMAIN data
    THEN [kind |-> "raise", error |-> Error("KeyError", "init_parameters", None),
          events |-> <<>>]
    ELSE LET c == construct_kw(id, data.init_parameters) IN
         IF c.kind = "raise"
         THEN [kind |-> "raise", error |-> c.error, events |-> <<"__init__">>]
         ELSE IF "type" \notin DOMAIN data
         THEN [kind |-> "raise",
               error |-> Error("ComponentDeserializationError",
                               "Missing 'type' in component serialization data", None),
               events |-> <<"__init__">>]
         ELSE IF data.type # ClassName
         THEN [kind |-> "raise",
               error |-> Error("ComponentDeserializationError",
                               "can't be deserialized as", None),
               events |-> <<"__init__">>]
         ELSE from_dict_store(c.value, data, <<"__init__">>)

from_dict(id, data) ==
    IF "type" \notin DOMAIN data
    THEN [kind |-> "raise",
          error |-> Error("ComponentDeserializationError",
                          "Missing 'type' in component serialization data", None),
          events |-> <<>>]
    ELSE IF data.type # ClassName
    THEN [kind |-> "raise",
          error |-> Error("ComponentDeserializationError",
                          "can't be deserialized as", None),
          events |-> <<>>]
    ELSE IF "init_parameters" \notin DOMAIN data
    THEN [kind |-> "raise", error |-> Error("KeyError", "init_parameters", None),
          events |-> <<>>]
    ELSE LET c == construct_kw(id, data.init_parameters) IN
         IF c.kind = "raise"
         THEN [kind |-> "raise", error |-> c.error, events |-> <<"__init__">>]
         ELSE from_dict_store(c.value, data, <<"__init__">>)

(* lines 90-91; self.filters may itself be None, so the value stays an Optional *)
effective_filters(override, default) ==
    IF override = None THEN default ELSE override

(* lines 92-93 *)
effective_top_k(override, default) ==
    IF override = None THEN default ELSE override[1]

effective_scale_score_truthy(override, default) ==
    IF override = None \/ override[1] = FALSE THEN default ELSE override[1]

(* lines 94-95 *)
effective_scale_score(override, default) ==
    IF override = None THEN default ELSE override[1]

Call(query, filters, top_k, scale_score) ==
    [query |-> query, filters |-> filters, top_k |-> top_k, scale_score |-> scale_score]

RECURSIVE run_loop_prepend(_, _, _, _, _, _, _)
run_loop_prepend(st, queries, filters, top_k, scale_score, docs, calls) ==
    IF queries = <<>>
    THEN [kind |-> "return", value |-> [documents |-> docs], calls |-> calls]
    ELSE LET query == Head(queries)
             r == bm25_retrieval(st, query, filters, top_k, scale_score)
             cs == Append(calls, Call(query, filters, top_k, scale_score))
         IN IF r.kind = "raise"
            THEN [kind |-> "raise", error |-> r.error, calls |-> cs]
            ELSE run_loop_prepend(st, Tail(queries), filters, top_k, scale_score,
                                  <<r.value>> \o docs, cs)

RECURSIVE run_loop_isolating(_, _, _, _, _, _, _)
run_loop_isolating(st, queries, filters, top_k, scale_score, docs, calls) ==
    IF queries = <<>>
    THEN [kind |-> "return", value |-> [documents |-> docs], calls |-> calls]
    ELSE LET query == Head(queries)
             r == bm25_retrieval(st, query, filters, top_k, scale_score)
             cs == Append(calls, Call(query, filters, top_k, scale_score))
         IN run_loop_isolating(st, Tail(queries), filters, top_k, scale_score,
                               Append(docs, IF r.kind = "raise" THEN <<>> ELSE r.value),
                               cs)

(* lines 97-100: the loop over the queries; calls is the list of          *)
(* bm25_retrieval calls issued                                            *)
RECURSIVE run_loop(_, _, _, _, _, _, _)
run_loop(st, queries, filters, top_k, scale_score, docs, calls) ==
    IF queries = <<>>
    THEN [kind |-> "return", value |-> [documents |-> docs], calls |-> calls]
    ELSE LET query == Head(queries)
             r == bm25_retrieval(st, query, filters, top_k, scale_score)
             cs == Append(calls, Call(query, filters, top_k, scale_score))
         IN IF r.kind = "raise"
            THEN [kind |-> "raise", error |-> r.error, calls |-> cs]
            ELSE run_loop(st, Tail(queries), filters, top_k, scale_score,
                          Append(docs, r.value), cs)

NoStoreError ==
    Error("ValueError",
          "MemoryRetriever needs a store to run: set the store instance to the self.store attribute",
          None)

run_unchecked(self, queries, filters, top_k, scale_score) ==
    IF store_getter(self) = None /\ queries # <<>>
    THEN [kind |-> "raise",
          error |-> Error("AttributeError",
                          "'NoneType' object has no attribute 'bm25_retrieval'", None),
          calls |-> <<>>]
    ELSE run_loop(IF store_getter(self) = None THEN StoreA ELSE store_getter(self)[1],
                  queries,
                  effective_filters(filters, self.filters),
                  effective_top_k(top_k, self.top_k),
                  effective_scale_score(scale_score, self.scale_score),
                  <<>>, <<>>)

run_validating(self, queries, filters, top_k, scale_score) ==
    IF store_getter(self) = None
    THEN [kind |-> "raise", error |-> NoStoreError, calls |-> <<>>]
    ELSE IF effective_top_k(top_k, self.top_k) <= 0
    THEN [kind |-> "raise",
          error |-> Error("ValueError", "top_k must be > 0, but got",
                          Some(effective_top_k(top_k, self.top_k))),
          calls |-> <<>>]
    ELSE run_loop(store_getter(self)[1], queries,
                  effective_filters(filters, self.filters),
                  effective_top_k(top_k, self.top_k),
                  effective_scale_score(scale_score, self.scale_score),
                  <<>>, <<>>)

run(self, queries, filters, top_k, scale_score) ==
    IF store_getter(self) = None
    THEN [kind |-> "raise", error |-> NoStoreError, calls |-> <<>>]
    ELSE run_loop(store_getter(self)[1], queries,
                  effective_filters(filters, self.filters),
                  effective_top_k(top_k, self.top_k),
                  effective_scale_score(scale_score, self.scale_score),
                  <<>>, <<>>)

(* ------------------------------ retriever actions --------------------- *)
(* lastOp is the outcome the (single-threaded) caller holds; the caller    *)
(* looks at it and drops it before it makes the next call.                 *)
Idle == [op |-> "none"]

DefaultRetriever == init("retriever", None, MaxTopK, TRUE).value

Construct ==
    \E f \in InitFilters, k \in TopKs, s \in BOOLEAN :
        LET r == init("retriever", f, k, s) IN
        /\ lastOp = Idle
        /\ retriever' = IF r.kind = "return" THEN r.value ELSE retriever
        /\ lastOp' = [op |-> "__init__",
                      args |-> [filters |-> f, top_k |-> k, scale_score |-> s],
                      result |-> r]
        /\ UNCHANGED wvars

SetStore ==
    \E st \in AnyStores :
        LET r == store_setter(retriever, st) IN
        /\ lastOp = Idle
        /\ retriever' = IF r.kind = "return" THEN r.value ELSE retriever
        /\ lastOp' = [op |-> "store.setter", args |-> [store |-> st],
                      result |-> [kind |-> r.kind]]
        /\ UNCHANGED wvars

PipelineAddComponent ==
    \E name \in StoreNames, st \in MemoryStores :
        LET r == store_setter(retriever, st) IN
        /\ lastOp = Idle
        /\ r.kind = "return"
        /\ retriever' = [r.value EXCEPT !._store_name = name]
        /\ lastOp' = [op |-> "add_component", args |-> [store |-> name]]
        /\ UNCHANGED wvars

DeferStoreName ==
    \E name \in StoreNames :
        /\ lastOp = Idle
        /\ retriever._store = None
        /\ retriever' = [retriever EXCEPT !._store_name = name]
        /\ lastOp' = [op |-> "defer_store", args |-> [store |-> name]]
        /\ UNCHANGED wvars

Run ==
    \E q \in QueryLists, f \in RunFilters, k \in OptTopKs, s \in OptBools :
        /\ lastOp = Idle
        /\ lastOp' = [op |-> "run",
                      args |-> [queries |-> q, filters |-> f, top_k |-> k,
                                scale_score |-> s],
                      result |-> run(retriever, q, f, k, s)]
        /\ UNCHANGED retriever
        /\ UNCHANGED wvars

ToDict ==
    /\ lastOp = Idle
    /\ lastOp' = [op |-> "to_dict", result |-> to_dict(retriever)]
    /\ UNCHANGED retriever
    /\ UNCHANGED wvars

Restrict(f, keys) == [k \in keys |-> f[k]]

(* the records handed to from_dict: the component's own serialized form    *)
(* and records that differ from it in one or more fields                   *)
DataSet(self) ==
    LET base == to_dict(self)
        types == {ClassName, "MemoryDocumentStore"}
        inits == {base.init_parameters,
                  [base.init_parameters EXCEPT !.top_k = 0],
                  [top_k |-> self.top_k],
                  [top_k |-> self.top_k, bogus |-> TRUE]}
        stores == {base.store,
                   [tag |-> "null"],
                   [tag |-> "str", val |-> "memory"],
                   [tag |-> "dict", val |-> Store_to_dict(StoreA)],
                   [tag |-> "dict", val |-> Store_to_dict(MockStore)]}
        drops == {{}, {"type"}, {"init_parameters"}, {"store"}}
    IN {Restrict([base EXCEPT !.type = t, !.init_parameters = i, !.store = st],
                 DOMAIN base \ d)
           : t \in types, i \in inits, st \in stores, d \in drops}

FromDict ==
    \E data \in DataSet(retriever) :
        /\ lastOp = Idle
        /\ lastOp' = [op |-> "from_dict", data |-> data,
                      result |-> from_dict("loaded", data)]
        /\ UNCHANGED retriever
        /\ UNCHANGED wvars

Discard ==
    /\ lastOp # Idle
    /\ lastOp' = Idle
    /\ UNCHANGED retriever
    /\ UNCHANGED wvars

RInit ==
    /\ retriever = DefaultRetriever
    /\ lastOp = [op |-> "__init__",
                 args |-> [filters |-> None, top_k |-> MaxTopK, scale_score |-> TRUE],
                 result |-> Return(DefaultRetriever)]

(* ------------------------------ WhisperTranscriber -------------------- *)
RemoteModels == {"whisper-1"}
LocalModels == {"tiny", "base", "large-v2"}
ModelNames == RemoteModels \cup LocalModels \cup {"anything"}
ApiKeys == {None, Some("just a test")}
Devices == {None, Some("cuda")}

(* whisper.load_model(name, device): the handle of the loaded model *)
load_model(name, device) == [model |-> name, device |-> device]

whisper_init(model_name_or_path, api_key, device) ==
    IF model_name_or_path \notin RemoteModels \cup LocalModels
    THEN Raise(Error("ValueError", "not recognized", None))
    ELSE IF model_name_or_path \in RemoteModels
    THEN IF api_key = None
         THEN Raise(Error("ValueError", "API key", None))
         ELSE Return([model_name |-> model_name_or_path, use_local_whisper |-> FALSE,
                      api_key |-> api_key, device |-> None, _model |-> None])
    ELSE Return([model_name |-> model_name_or_path, use_local_whisper |-> TRUE,
                 api_key |-> api_key,
                 device |-> IF device = None THEN Some("cpu") ELSE device,
                 _model |-> None])

(* warm_up: [self, loads], loads being the load_model calls it made *)
warm_up_reloading(self) ==
    IF self.use_local_whisper
    THEN [self |-> [self EXCEPT !._model = Some(load_model(self.model_name, self.device[1]))],
          loads |-> <<[name |-> self.model_name, device |-> self.device[1]]>>]
    ELSE [self |-> self, loads |-> <<>>]

warm_up(self) ==
    IF self.use_local_whisper /\ self._model = None
    THEN [self |-> [self EXCEPT !._model = Some(load_model(self.model_name, self.device[1]))],
          loads |-> <<[name |-> self.model_name, device |-> self.device[1]]>>]
    ELSE [self |-> self, loads |-> <<>>]

DefaultTranscriber == whisper_init("large-v2", None, None).value

WConstruct ==
    \E name \in ModelNames, key \in ApiKeys, dev \in Devices :
        LET r == whisper_init(name, key, dev) IN
        /\ transcriber' = IF r.kind = "return" THEN r.value ELSE transcriber
        /\ load_model_calls' = IF r.kind = "return" THEN <<>> ELSE load_model_calls
        /\ warm_ups' = IF r.kind = "return" THEN 0 ELSE warm_ups
        /\ lastW' = [op |-> "__init__", kind |-> r.kind]
        /\ UNCHANGED rvars

WarmUp ==
    /\ warm_ups < MaxWarmUps
    /\ LET r == warm_up(transcriber) IN
        /\ transcriber' = r.self
        /\ load_model_calls' = load_model_calls \o r.loads
        /\ lastW' = [op |-> "warm_up", kind |-> "return"]
    /\ warm_ups' = warm_ups + 1
    /\ UNCHANGED rvars

WInit ==
    /\ transcriber = DefaultTranscriber
    /\ load_model_calls = <<>>
    /\ warm_ups = 0
    /\ lastW = [op |-> "__init__", kind |-> "return"]

(* ------------------------------ specifications ------------------------ *)
Init == RInit /\ WInit

Next ==
    \/ Construct
    \/ SetStore
    \/ PipelineAddComponent
    \/ DeferStoreName
    \/ Run
    \/ ToDict
    \/ FromDict
    \/ Discard

Spec == Init /\ [][Next]_vars

WNext ==
    \/ WConstruct
    \/ WarmUp

SpecWhisper == Init /\ [][WNext]_vars

(* ------------------------------ claims -------------------------------- *)
IsRun == lastOp.op = "run"
RunQ == lastOp.args.queries
RunCalls == lastOp.result.calls
Bound == retriever._store # None
Succeeds(q) == q # ""

(* C1: with a bound store and a query list whose every store call returns, *)
(* run returns {documents: L}: one bm25_retrieval call per query in input  *)
(* order, Len(L) = n, and L[i] is exactly what the store returns for Q[i]. *)
C1_OneListPerQuery ==
    (IsRun /\ Bound /\ \A i \in 1..Len(RunQ) : Succeeds(RunQ[i])) =>
        /\ lastOp.result.kind = "return"
        /\ Len(lastOp.result.value.documents) = Len(RunQ)
        /\ Len(RunCalls) = Len(RunQ)
        /\ \A i \in 1..Len(RunQ) :
              /\ RunCalls[i].query = RunQ[i]
              /\ lastOp.result.value.documents[i] =
                     bm25_retrieval(retriever._store[1], RunQ[i], RunCalls[i].filters,
                                    RunCalls[i].top_k, RunCalls[i].scale_score).value

C1_Witness ==
    /\ IsRun /\ Bound
    /\ lastOp.result.kind = "return"
    /\ Len(RunQ) = 2
    /\ RunQ[1] # RunQ[2]
    /\ lastOp.result.value.documents[1] # lastOp.result.value.documents[2]

(* C2: every bm25_retrieval call of a run carries, for each of filters,    *)
(* top_k and scale_score, the per-call value when one was given (also      *)
(* scale_score=False and an empty filters mapping) and otherwise the        *)
(* instance default.                                                        *)
C2_OverridePrecedence ==
    IsRun =>
        \A i \in 1..Len(RunCalls) :
            /\ RunCalls[i].filters = IF lastOp.args.filters # None
                                      THEN lastOp.args.filters ELSE retriever.filters
            /\ RunCalls[i].top_k = IF lastOp.args.top_k # None
                                    THEN lastOp.args.top_k[1] ELSE retriever.top_k
            /\ RunCalls[i].scale_score = IF lastOp.args.scale_score # None
                                          THEN lastOp.args.scale_score[1]
                                          ELSE retriever.scale_score

C2_Witness ==
    /\ IsRun
    /\ Len(RunCalls) = 2
    /\ lastOp.args.scale_score = Some(FALSE) /\ retriever.scale_score = TRUE
    /\ lastOp.args.filters = Some({}) /\ retriever.filters = Some({"PHP"})
    /\ lastOp.args.top_k = None
    /\ RunCalls[2].scale_score = FALSE
    /\ RunCalls[2].filters = Some({})

(* C3: construction with top_k <= 0 raises ValueError carrying the value    *)
(* and yields no component; with top_k > 0 it succeeds and stores top_k.    *)
C3_InitValidatesTopK ==
    lastOp.op = "__init__" =>
        IF lastOp.args.top_k <= 0
        THEN /\ lastOp.result.kind = "raise"
             /\ lastOp.result.error.exc = "ValueError"
             /\ lastOp.result.error.value = Some(lastOp.args.top_k)
             /\ "value" \notin DOMAIN lastOp.result
        ELSE /\ lastOp.result.kind = "return"
             /\ lastOp.result.value.top_k = lastOp.args.top_k
             /\ retriever = lastOp.result.value

C3_Witness ==
    /\ lastOp.op = "__init__"
    /\ lastOp.args.top_k = 0
    /\ lastOp.result.kind = "raise"

(* C4: run without a bound store raises the "needs a store" ValueError for *)
(* every query list and every combination of overrides, and issues no      *)
(* bm25_retrieval call.                                                    *)
C4_RunNeedsStore ==
    (IsRun /\ ~Bound) =>
        /\ lastOp.result.kind = "raise"
        /\ lastOp.result.error = NoStoreError
        /\ lastOp.result.error.exc = "ValueError"
        /\ RunCalls = <<>>

C4_Witness ==
    /\ IsRun /\ ~Bound
    /\ Len(RunQ) = 2
    /\ lastOp.args.top_k # None
    /\ lastOp.args.scale_score # None
    /\ lastOp.result.kind = "raise"

IsRoundTrip == lastOp.op = "from_dict" /\ lastOp.data = to_dict(retriever)
Loaded == lastOp.result.value

SameDefaults ==
    /\ lastOp.result.kind = "return"
    /\ Loaded.filters = retriever.filters
    /\ Loaded.top_k = retriever.top_k
    /\ Loaded.scale_score = retriever.scale_score

SameStoreResults ==
    /\ Loaded._store # None
    /\ \A q \in Queries, f \in OptFilters, k \in TopKs, s \in BOOLEAN :
          bm25_retrieval(Loaded._store[1], q, f, k, s)
             = bm25_retrieval(retriever._store[1], q, f, k, s)

StoreField == lastOp.result.store

(* C6 as stated: a bound store wins over a known store name. *)
C6_Original ==
    lastOp.op = "to_dict" =>
        StoreField = IF Bound
                     THEN [tag |-> "dict", val |-> Store_to_dict(retriever._store[1])]
                     ELSE IF retriever._store_name # ""
                     THEN [tag |-> "str", val |-> retriever._store_name]
                     ELSE [tag |-> "null"]

(* C6: to_dict encodes the store field as the store name when a name is    *)
(* known (also when a store is bound as well), otherwise as the bound       *)
(* store's serialized form, otherwise as null.                              *)
C6_StoreFieldEncoding ==
    lastOp.op = "to_dict" =>
        StoreField = IF retriever._store_name # ""
                     THEN [tag |-> "str", val |-> retriever._store_name]
                     ELSE IF Bound
                     THEN [tag |-> "dict", val |-> Store_to_dict(retriever._store[1])]
                     ELSE [tag |-> "null"]

C6_Witness ==
    /\ lastOp.op = "to_dict"
    /\ Bound /\ retriever._store_name # ""
    /\ StoreField.tag = "str"

(* C7: from_dict on a record without a type field, or with another type,   *)
(* raises ComponentDeserializationError before it constructs a component   *)
(* or a store, whatever the other fields hold.                             *)
C7_TypeCheckedFirst ==
    (lastOp.op = "from_dict"
        /\ ("type" \notin DOMAIN lastOp.data \/ lastOp.data.type # ClassName)) =>
        /\ lastOp.result.kind = "raise"
        /\ lastOp.result.error.exc = "ComponentDeserializationError"
        /\ lastOp.result.events = <<>>

C7_Witness ==
    /\ lastOp.op = "from_dict"
    /\ DOMAIN lastOp.data = {"hash", "type", "store"}
    /\ lastOp.data.type # ClassName
    /\ lastOp.data.store.tag = "dict"
    /\ lastOp.result.kind = "raise"

(* C8: after one or more warm_up calls a local-mode transcriber has called *)
(* the model loader exactly once and its model slot holds the loaded model.*)
C8_WarmUpLoadsOnce ==
    (transcriber.use_local_whisper /\ warm_ups >= 1) =>
        /\ Len(load_model_calls) = 1
        /\ load_model_calls[1].name = transcriber.model_name
        /\ transcriber._model = Some(load_model(transcriber.model_name,
                                                 transcriber.device[1]))

C8_Witness ==
    /\ transcriber.use_local_whisper
    /\ warm_ups = 2
    /\ Len(load_model_calls) = 1

FirstFailure == CHOOSE i \in 1..Len(RunQ) :
                    ~Succeeds(RunQ[i]) /\ \A j \in 1..(i - 1) : Succeeds(RunQ[j])

(* C9: when the store call fails for Q[i], run makes no call for a later   *)
(* query, returns nothing, and raises the store's error unchanged.         *)
C9_FailFast ==
    (IsRun /\ Bound /\ \E i \in 1..Len(RunQ) : ~Succeeds(RunQ[i])) =>
        /\ lastOp.result.kind = "raise"
        /\ "value" \notin DOMAIN lastOp.result
        /\ Len(RunCalls) = FirstFailure
        /\ RunCalls[FirstFailure].query = RunQ[FirstFailure]
        /\ lastOp.result.error =
               bm25_retrieval(retriever._store[1], RunQ[FirstFailure],
                              RunCalls[FirstFailure].filters,
                              RunCalls[FirstFailure].top_k,
                              RunCalls[FirstFailure].scale_score).error

C9_Witness ==
    /\ IsRun /\ Bound
    /\ Len(RunQ) = 2
    /\ ~Succeeds(RunQ[1]) /\ Succeeds(RunQ[2])
    /\ lastOp.result.kind = "raise"
    /\ Len(RunCalls) = 1

(* C10 as stated: every call carries top_k > 0, and a run with a per-call  *)
(* top_k <= 0 fails without reaching the store.                            *)
C10_Original ==
    IsRun =>
        /\ \A i \in 1..Len(RunCalls) : RunCalls[i].top_k > 0
        /\ (lastOp.args.top_k # None /\ lastOp.args.top_k[1] <= 0) =>
               (lastOp.result.kind = "raise" /\ RunCalls = <<>>)

(* C10: top_k is checked at construction only: the instance default is > 0 *)
(* and so is the top_k of every call of a run without a per-call top_k; a  *)
(* per-call top_k, positive or not, is passed to the store as given.       *)
C10_TopKCheckedAtConstructionOnly ==
    /\ retriever.top_k > 0
    /\ IsRun =>
        /\ lastOp.args.top_k = None => \A i \in 1..Len(RunCalls) : RunCalls[i].top_k > 0
        /\ (lastOp.args.top_k # None /\ Bound /\ RunQ # <<>>) =>
               /\ RunCalls # <<>>
               /\ \A i \in 1..Len(RunCalls) : RunCalls[i].top_k = lastOp.args.top_k[1]

C10_Witness ==
    /\ IsRun /\ Bound
    /\ lastOp.args.top_k = Some(0)
    /\ lastOp.result.kind = "return"
    /\ Len(RunCalls) = 2
    /\ RunCalls[1].top_k = 0
====
